---- MODULE Spec2Model ----
(***************************************************************************)
(* Model of streamlit_app.py (HSG reporting tool): the booking ledger, the *)
(* asset status projector, the issue status machine and the SLA           *)
(* calculator.                                                             *)
(*                                                                         *)
(* Time.  Every timestamp of the program is an ISO-8601 string produced by *)
(* isoformat(timespec="seconds") in the one zone Europe/Zurich, and the    *)
(* SQL compares these strings.  Within one UTC offset the strings order    *)
(* exactly as the instants do, so a timestamp is modelled as the number of *)
(* half hours (the booking form's slot width) since the start of the run.  *)
(* NULL is the SQL NULL / Python None.                                     *)
(***************************************************************************)
EXTENDS Integers, Sequences, FiniteSets, TLC

\* ------------------------------------------------------------------ bounds
MaxTime == 2         \* the clock runs 0..MaxTime
MaxBookings == 2     \* rows the bookings table may hold
MaxDuration == 2     \* longest offered duration used, in half hours

NULL == "NULL"

MaxIssues == 1       \* rows the submissions table may hold
MaxFrameIssues == 2  \* ... where several issues are managed side by side
MaxLog == 1          \* rows the status_log table may hold
MaxIssueTime == 1    \* the clock of the issue pages runs 0..MaxIssueTime
MaxReportTime == 352 \* the clock of the report runs reaches the second Monday, 08:00
MaxManualReports == 1 \* rows the Weekly Report button may add to report_log
MaxReportRaceTime == 20 \* ... and the first Monday, 10:00, where the runs interleave
MaxCreated == 24     \* latest created_at handed to expected_resolution_dt

\* --------------------------------------------------------------- constants
\* half hours per hour: the booking slots are minute 0 and 30 of each hour
SlotsPerHour == 2

IMPORTANCE_LEVELS == {"Low", "Medium", "High"}
STATUS_LEVELS == {"Pending", "In Progress", "Resolved"}
ISSUE_TYPES ==
    { "Lighting issues", "Sanitary problems",
      "Heating, ventilation or air conditioning issues",
      "Cleaning needs due to heavy soiling", "Network/internet problems",
      "Issues with/lack of IT equipment" }

\* SLA_HOURS_BY_IMPORTANCE
SLA_HOURS_BY_IMPORTANCE == [p \in IMPORTANCE_LEVELS |->
    CASE p = "High" -> 24 [] p = "Medium" -> 72 [] p = "Low" -> 120]

\* duration_options of the booking form, in half hours (0.5h .. 8h)
duration_options == {1, 2, 4, 6, 8, 12, 16}
Durations == {d \in duration_options : d <= MaxDuration}

\* LOCATIONS keys, a location id split at its underscores
LOCATIONS ==
    { <<"R", "A", "09001">>, <<"H", "A", "09001">>,
      <<"R", "B", "10012">>, <<"H", "B", "10012">>,
      <<"R", "C", "11023">>, <<"L", "C", "11000">> }

\* the rows seed_assets inserts: asset_id -> (asset_type, location_id, status)
seed_assets ==
    [ a \in { "ROOM_A", "ROOM_B", "MEETING_1", "PROJECTOR_1", "CHAIR_H1",
              "CHAIR_H2", "WHITEBOARD_1", "SCREEN_1", "TABLE_1" } |->
      CASE a = "ROOM_A"       -> [asset_type |-> "Room",       location_id |-> <<"R", "A", "09001">>, status |-> "available"]
        [] a = "ROOM_B"       -> [asset_type |-> "Room",       location_id |-> <<"R", "B", "10012">>, status |-> "available"]
        [] a = "MEETING_1"    -> [asset_type |-> "Room",       location_id |-> <<"R", "B", "10012">>, status |-> "available"]
        [] a = "PROJECTOR_1"  -> [asset_type |-> "Projector",  location_id |-> <<"H", "B", "10012">>, status |-> "available"]
        [] a = "CHAIR_H1"     -> [asset_type |-> "Chair",      location_id |-> <<"H", "A", "09001">>, status |-> "available"]
        [] a = "CHAIR_H2"     -> [asset_type |-> "Chair",      location_id |-> <<"H", "A", "09001">>, status |-> "available"]
        [] a = "WHITEBOARD_1" -> [asset_type |-> "Whiteboard", location_id |-> <<"R", "A", "09001">>, status |-> "available"]
        [] a = "SCREEN_1"     -> [asset_type |-> "Screen",     location_id |-> <<"R", "B", "10012">>, status |-> "available"]
        [] a = "TABLE_1"      -> [asset_type |-> "Table",      location_id |-> <<"MEETING", "1">>,    status |-> "available"] ]

AssetIds == DOMAIN seed_assets

\* inputs of the handlers, drawn from small sets
BookableAssets == {"ROOM_A", "MEETING_1"}
MovableAssets == {"ROOM_A", "CHAIR_H1"}
MoveTargets == { <<"R", "A", "09001">>, <<"H", "A", "09001">> }
UserNames == {"", "Max"}

VARIABLES
    now,        \* now_zurich(): the clock
    assets,     \* table assets: asset_id -> row
    bookings,   \* table bookings: sequence of rows, booking_id = index
    bsess,      \* per browser session: the script run serving a booking form
    submissions, \* table submissions: sequence of rows, id = index
    status_log, \* table status_log: sequence of rows, in insertion order
    adm,        \* per browser session: the script run of the admin page
    last,       \* what the last step did to the issues, and the email it tried
    sla,        \* the last expected_resolution_dt call: arguments and result
    report_log, \* table report_log: sequence of rows, in insertion order
    outbox,     \* the report emails SMTP accepted: kind and time of sending
    proc        \* per browser session: the statement its script run is at

vars == <<now, assets, bookings, bsess, submissions, status_log, adm, last, sla,
          report_log, outbox, proc>>
issueVars == <<submissions, status_log, adm, last, sla>>
reportVars == <<report_log, outbox, proc>>

\* Optional[datetime]: None, or the one-element tuple of the instant
None == << >>
Some(t) == <<t>>

\* the script runs of the sessions are threads over the one cached connection
Sessions == {"s1", "s2"}
IdleProc == [pc |-> "idle"]
IdleRun == [pc |-> "idle", asset_id |-> NULL, user_name |-> "", start_dt |-> 0, end_dt |-> 0]

\* ------------------------------------------------------------ pure helpers
\* is_room_location: str(location_id).startswith("R_")
is_room_location(location_id) ==
    Len(location_id) > 1 /\ location_id[1] = "R"

\* fetch_assets_in_room without its asset_type filter
fetch_assets_in_room_any_type(tab, room_location_id) ==
    { a \in DOMAIN tab : tab[a].location_id = room_location_id }

\* fetch_assets_in_room: asset ids WHERE location_id = ? AND asset_type != 'Room'
fetch_assets_in_room(tab, room_location_id) ==
    { a \in DOMAIN tab : tab[a].location_id = room_location_id
                          /\ tab[a].asset_type # "Room" }

\* UPDATE assets SET status = 'booked' WHERE asset_id IN ids
MarkBooked(tab, ids) ==
    [a \in DOMAIN tab |-> IF a \in ids THEN [tab[a] EXCEPT !.status = "booked"] ELSE tab[a]]

\* the join of sync_asset_statuses_from_bookings: the booking ids of the rows
\* whose asset exists and whose interval holds now_iso
ActiveRows(tab, bks, t) ==
    { i \in 1..Len(bks) : bks[i].asset_id \in DOMAIN tab
                           /\ bks[i].start_time <= t /\ bks[i].end_time > t }

\* the for-loop of sync_asset_statuses_from_bookings over the active rows
RECURSIVE SyncLoop(_, _, _)
SyncLoop(tab, bks, rows) ==
    IF rows = {} THEN tab
    ELSE LET i == CHOOSE k \in rows : \A j \in rows : k <= j
             asset_id == bks[i].asset_id
             asset_type == tab[asset_id].asset_type
             location_id == tab[asset_id].location_id
             t1 == MarkBooked(tab, {asset_id})
             t2 == IF asset_type = "Room" /\ is_room_location(location_id)
                   THEN MarkBooked(t1, fetch_assets_in_room(t1, location_id))
                   ELSE t1
         IN SyncLoop(t2, bks, rows \ {i})

\* sync_asset_statuses_from_bookings without the reset to 'available'
sync_without_reset(tab, bks, t) ==
    SyncLoop(tab, bks, ActiveRows(tab, bks, t))

\* sync_asset_statuses_from_bookings at clock t
sync_asset_statuses_from_bookings(tab, bks, t) ==
    LET reset == [a \in DOMAIN tab |-> [tab[a] EXCEPT !.status = "available"]]
    IN SyncLoop(reset, bks, ActiveRows(reset, bks, t))

\* is_asset_available counting only the rows that lie inside the request
is_asset_available_contained(bks, asset_id, start_time, end_time) ==
    Cardinality({ i \in 1..Len(bks) : bks[i].asset_id = asset_id
                                       /\ bks[i].start_time >= start_time
                                       /\ bks[i].end_time <= end_time }) = 0

\* is_asset_available with closed intervals (<= and >=)
is_asset_available_closed(bks, asset_id, start_time, end_time) ==
    Cardinality({ i \in 1..Len(bks) : bks[i].asset_id = asset_id
                                       /\ bks[i].start_time <= end_time
                                       /\ bks[i].end_time >= start_time }) = 0

\* is_asset_available answering "not available" for an asset_id that is not
\* in the assets table
is_asset_available_known_only(bks, asset_id, start_time, end_time) ==
    /\ asset_id \in DOMAIN seed_assets
    /\ Cardinality({ i \in 1..Len(bks) : bks[i].asset_id = asset_id
                                          /\ bks[i].start_time < end_time
                                          /\ bks[i].end_time > start_time }) = 0

\* is_asset_available: SELECT COUNT(*) ... start_time < end AND end_time > start; count == 0
is_asset_available(bks, asset_id, start_time, end_time) ==
    Cardinality({ i \in 1..Len(bks) : bks[i].asset_id = asset_id
                                       /\ bks[i].start_time < end_time
                                       /\ bks[i].end_time > start_time }) = 0

\* -------------------------------------------------------------------- text
\* A str is the sequence of its characters.
LowerLetters == << "a", "b", "c", "d", "e", "f", "g", "h", "i", "j", "k", "l", "m",
                   "n", "o", "p", "q", "r", "s", "t", "u", "v", "w", "x", "y", "z" >>
UpperLetters == << "A", "B", "C", "D", "E", "F", "G", "H", "I", "J", "K", "L", "M",
                   "N", "O", "P", "Q", "R", "S", "T", "U", "V", "W", "X", "Y", "Z" >>
IsLower(c) == \E k \in DOMAIN LowerLetters : LowerLetters[k] = c
IsUpper(c) == \E k \in DOMAIN UpperLetters : UpperLetters[k] = c
IsDigit(c) == c \in {"0", "1", "2", "3", "4", "5", "6", "7", "8", "9"}
IsSpace(c) == c \in {" ", "\t", "\n"}
IsWord(c) == IsLower(c) \/ IsUpper(c) \/ IsDigit(c) \/ c = "_"

\* str.upper, str.lower, str.strip
upper(str) ==
    [k \in DOMAIN str |->
        IF IsLower(str[k])
        THEN UpperLetters[CHOOSE j \in DOMAIN LowerLetters : LowerLetters[j] = str[k]]
        ELSE str[k]]
lower(str) ==
    [k \in DOMAIN str |->
        IF IsUpper(str[k])
        THEN LowerLetters[CHOOSE j \in DOMAIN UpperLetters : UpperLetters[j] = str[k]]
        ELSE str[k]]
RECURSIVE lstrip(_)
lstrip(str) == IF str # << >> /\ IsSpace(str[1]) THEN lstrip(Tail(str)) ELSE str
RECURSIVE rstrip(_)
rstrip(str) ==
    IF str # << >> /\ IsSpace(str[Len(str)])
    THEN rstrip(SubSeq(str, 1, Len(str) - 1)) ELSE str
strip(str) == rstrip(lstrip(str))

\* the regular expression \d{2}-\d{3}, matched against the whole of str
MatchesRoomDigits(str) ==
    /\ Len(str) = 6
    /\ IsDigit(str[1]) /\ IsDigit(str[2]) /\ str[3] = "-"
    /\ IsDigit(str[4]) /\ IsDigit(str[5]) /\ IsDigit(str[6])

\* re.sub(r"\s+", " ", str)
RECURSIVE CollapseSpaces(_)
CollapseSpaces(str) ==
    IF str = << >> THEN << >>
    ELSE IF IsSpace(str[1])
         THEN <<" ">> \o CollapseSpaces(lstrip(str))
         ELSE <<str[1]>> \o CollapseSpaces(Tail(str))

\* valid_email: EMAIL_PATTERN ^[\w.]+@(student\.)?unisg\.ch$ on the stripped text
valid_email(hsg_email) ==
    LET e == strip(hsg_email) IN
    \E k \in DOMAIN e :
        /\ e[k] = "@"
        /\ k > 1
        /\ \A j \in 1..(k - 1) : IsWord(e[j]) \/ e[j] = "."
        /\ SubSeq(e, k + 1, Len(e)) \in
              { <<"u", "n", "i", "s", "g", ".", "c", "h">>,
                <<"s", "t", "u", "d", "e", "n", "t", ".", "u", "n", "i", "s", "g", ".", "c", "h">> }

\* valid_room_number: ROOM_PATTERN ^[A-Z]\s?\d{2}-\d{3}$ on the stripped text
valid_room_number(room_number) ==
    LET r == strip(room_number) IN
    \/ Len(r) = 7 /\ IsUpper(r[1]) /\ MatchesRoomDigits(SubSeq(r, 2, 7))
    \/ Len(r) = 8 /\ IsUpper(r[1]) /\ IsSpace(r[2]) /\ MatchesRoomDigits(SubSeq(r, 3, 8))

\* normalize_room without the re.sub that puts the space after the letter
normalize_room_unspaced(room_number) ==
    CollapseSpaces(upper(strip(room_number)))

\* normalize_room
normalize_room(room_number) ==
    LET raw == upper(strip(room_number))
        spaced == IF Len(raw) = 7 /\ IsUpper(raw[1]) /\ MatchesRoomDigits(SubSeq(raw, 2, 7))
                  THEN <<raw[1], " ">> \o SubSeq(raw, 2, 7)
                  ELSE raw
    IN CollapseSpaces(spaced)

\* validate_submission_input returning at its first error
validate_submission_input_first_error(sub) ==
    IF strip(sub.name) = << >> THEN <<"Name is required.">>
    ELSE IF strip(sub.hsg_email) = << >> THEN <<"HSG email address is required.">>
    ELSE IF ~valid_email(sub.hsg_email) THEN <<"Invalid email address.">>
    ELSE IF strip(sub.room_number) = << >> THEN <<"Room number is required.">>
    ELSE IF ~valid_room_number(sub.room_number) THEN <<"Invalid room number format.">>
    ELSE IF sub.issue_type \notin ISSUE_TYPES THEN <<"Invalid issue type selection.">>
    ELSE IF sub.importance \notin IMPORTANCE_LEVELS THEN <<"Invalid importance selection.">>
    ELSE IF strip(sub.user_comment) = << >> THEN <<"Problem description is required.">>
    ELSE << >>

\* validate_submission_input: the error messages, in the order of the checks
validate_submission_input(sub) ==
    (IF strip(sub.name) = << >> THEN <<"Name is required.">> ELSE << >>)
    \o (IF strip(sub.hsg_email) = << >> THEN <<"HSG email address is required.">>
        ELSE IF ~valid_email(sub.hsg_email) THEN <<"Invalid email address.">>
        ELSE << >>)
    \o (IF strip(sub.room_number) = << >> THEN <<"Room number is required.">>
        ELSE IF ~valid_room_number(sub.room_number) THEN <<"Invalid room number format.">>
        ELSE << >>)
    \o (IF sub.issue_type \notin ISSUE_TYPES THEN <<"Invalid issue type selection.">> ELSE << >>)
    \o (IF sub.importance \notin IMPORTANCE_LEVELS THEN <<"Invalid importance selection.">> ELSE << >>)
    \o (IF strip(sub.user_comment) = << >> THEN <<"Problem description is required.">> ELSE << >>)

\* validate_admin_email
validate_admin_email(email) ==
    IF strip(email) = << >> THEN <<"Email address is required.">>
    ELSE IF ~valid_email(email) THEN <<"Please provide a valid HSG email address.">>
    ELSE << >>

\* ---------------------------------------------------------------- SLA
\* iso_to_dt: datetime.fromisoformat, None on TypeError and ValueError.  The
\* argument is <<"iso", t>> for the ISO text of instant t, anything else does
\* not parse.
iso_to_dt(value) ==
    IF Len(value) = 2 /\ value[1] = "iso" THEN Some(value[2]) ELSE None

\* expected_resolution_dt with a default of 72 hours for an unknown priority
expected_resolution_dt_defaulting(created_at_iso, importance) ==
    LET created_dt == iso_to_dt(created_at_iso)
        sla_hours == IF importance \in DOMAIN SLA_HOURS_BY_IMPORTANCE
                     THEN SLA_HOURS_BY_IMPORTANCE[importance] ELSE 72
    IN IF created_dt = None THEN None
       ELSE Some(created_dt[1] + sla_hours * SlotsPerHour)

\* expected_resolution_dt
expected_resolution_dt(created_at_iso, importance) ==
    LET created_dt == iso_to_dt(created_at_iso)
        sla_hours == IF importance \in DOMAIN SLA_HOURS_BY_IMPORTANCE
                     THEN Some(SLA_HOURS_BY_IMPORTANCE[importance]) ELSE None
    IN IF created_dt = None \/ sla_hours = None THEN None
       ELSE Some(created_dt[1] + sla_hours[1] * SlotsPerHour)

\* next_available_time with the comparison of fetch_future_bookings, end_time >= ?
next_available_time_inclusive(bks, asset_id, t) ==
    LET ends == { bks[i].end_time : i \in { j \in 1..Len(bks) :
                      bks[j].asset_id = asset_id /\ bks[j].end_time >= t } }
    IN IF ends = {} THEN None
       ELSE iso_to_dt(<<"iso", CHOOSE m \in ends : \A e \in ends : m <= e>>)

\* next_available_time: SELECT MIN(end_time) ... WHERE asset_id = ? AND end_time > ?
next_available_time(bks, asset_id, t) ==
    LET ends == { bks[i].end_time : i \in { j \in 1..Len(bks) :
                      bks[j].asset_id = asset_id /\ bks[j].end_time > t } }
    IN IF ends = {} THEN None
       ELSE iso_to_dt(<<"iso", CHOOSE m \in ends : \A e \in ends : m <= e>>)

NoSla == [created_at_iso |-> <<"none">>, importance |-> "", result |-> None]

\* ---------------------------------------------------------------- issues
\* ADMIN_PASSWORD, a secret of the deployment
ADMIN_PASSWORD == "secret"
PasswordInputs == {"secret", "guess"}
\* ASSIGNEES, and None for "(Unassigned)"
AssigneeInputs == {NULL, "Facility Team"}

IdleAdmin == [auth |-> FALSE, pc |-> "idle", id |-> 0, status |-> "",
              hsg_email |-> << >>, name |-> << >>]

NoMail == [kind |-> "none", to |-> << >>, ok |-> FALSE, raised |-> FALSE]
NoForm == [name |-> << >>, hsg_email |-> << >>, issue_type |-> "", room_number |-> << >>,
           importance |-> "", user_comment |-> << >>]
NoLast == [op |-> "none", id |-> 0, logged |-> FALSE, mail |-> NoMail, errors |-> << >>,
           form |-> NoForm, by |-> "", entered |-> ""]

\* send_email with the SMTP failure escaping as an exception
send_email_raising(to_email, kind, smtp_ok) ==
    [kind |-> kind, to |-> to_email, ok |-> smtp_ok, raised |-> ~smtp_ok]

\* send_email: (True, msg) when SMTP took the message, (False, msg) when any
\* exception was caught; kind stands for the subject and body
send_email(to_email, kind, smtp_ok) ==
    [kind |-> kind, to |-> to_email, ok |-> smtp_ok, raised |-> FALSE]

\* insert_submission.  created_at and updated_at, and changed_at of a
\* status_log row, are written and read by no handler modelled here; the rows
\* leave them out.
insert_submission(subs, sub, t) ==
    Append(subs, [name |-> strip(sub.name),
                  hsg_email |-> lower(strip(sub.hsg_email)),
                  issue_type |-> sub.issue_type,
                  room_number |-> normalize_room(sub.room_number),
                  importance |-> sub.importance,
                  status |-> "Pending",
                  user_comment |-> strip(sub.user_comment),
                  assigned_to |-> NULL, resolved_at |-> None])

\* update_issue_admin_fields writing resolved_at on every save as Resolved
update_issue_admin_fields_overwriting(subs, log, issue_id, new_status, assigned_to, old_status, t) ==
    [ subs |-> [i \in DOMAIN subs |->
                  IF i = issue_id
                  THEN [subs[i] EXCEPT !.status = new_status,
                                       !.assigned_to = assigned_to,
                                       !.resolved_at = IF new_status = "Resolved"
                                                       THEN Some(t) ELSE @]
                  ELSE subs[i]],
      log |-> IF new_status # old_status
              THEN Append(log, [submission_id |-> issue_id, old_status |-> old_status,
                                new_status |-> new_status])
              ELSE log ]

\* update_issue_admin_fields with its UPDATE lacking "WHERE id = ?"
update_issue_admin_fields_every_row(subs, log, issue_id, new_status, assigned_to, old_status, t) ==
    [ subs |-> [i \in DOMAIN subs |->
                  [subs[i] EXCEPT !.status = new_status,
                                  !.assigned_to = assigned_to,
                                  !.resolved_at = IF new_status = "Resolved" /\ @ = None
                                                  THEN Some(t) ELSE @]],
      log |-> IF new_status # old_status
              THEN Append(log, [submission_id |-> issue_id, old_status |-> old_status,
                                new_status |-> new_status])
              ELSE log ]

\* update_issue_admin_fields with its CASE taking the ELSE branch always:
\* resolved_at is never written
update_issue_admin_fields_unstamped(subs, log, issue_id, new_status, assigned_to, old_status, t) ==
    [ subs |-> [i \in DOMAIN subs |->
                  IF i = issue_id
                  THEN [subs[i] EXCEPT !.status = new_status, !.assigned_to = assigned_to]
                  ELSE subs[i]],
      log |-> IF new_status # old_status
              THEN Append(log, [submission_id |-> issue_id, old_status |-> old_status,
                                new_status |-> new_status])
              ELSE log ]

\* update_issue_admin_fields: the UPDATE and the INSERT of one transaction
update_issue_admin_fields(subs, log, issue_id, new_status, assigned_to, old_status, t) ==
    LET updated_at == t
        set_resolved_at == (new_status = "Resolved")
    IN [ subs |-> [i \in DOMAIN subs |->
                     IF i = issue_id
                     THEN [subs[i] EXCEPT
                             !.status = new_status,
                             !.assigned_to = assigned_to,
                             !.resolved_at = IF set_resolved_at /\ @ = None
                                             THEN Some(updated_at) ELSE @]
                     ELSE subs[i]],
         log |-> IF new_status # old_status
                 THEN Append(log, [submission_id |-> issue_id, old_status |-> old_status,
                                   new_status |-> new_status])
                 ELSE log ]

\* ---------------------------------------------------------------- reports
\* AUTO_WEEKLY_REPORT, REPORT_WEEKDAY, REPORT_HOUR: the deployment switches the
\* report on; weekday and hour are the defaults (Monday, 7 o'clock)
AUTO_WEEKLY_REPORT == TRUE
REPORT_WEEKDAY == 0
REPORT_HOUR == 7

\* datetime.date(), .hour and .weekday() of an instant; instant 0 is a Monday, 00:00
date(t) == t \div (24 * SlotsPerHour)
hour(t) == (t \div SlotsPerHour) % 24
weekday(t) == date(t) % 7

\* fetch_report_log: SELECT ... WHERE report_type = ? ORDER BY sent_at DESC
RECURSIVE OrderBySentAtDesc(_, _)
OrderBySentAtDesc(log, ks) ==
    IF ks = {} THEN << >>
    ELSE LET k == CHOOSE k \in ks : \A j \in ks : log[j].sent_at <= log[k].sent_at
         IN <<log[k]>> \o OrderBySentAtDesc(log, ks \ {k})
fetch_report_log(log, report_type) ==
    OrderBySentAtDesc(log, {k \in DOMAIN log : log[k].report_type = report_type})

\* mark_report_sent
mark_report_sent(log, report_type, t) ==
    Append(log, [report_type |-> report_type, sent_at |-> t])

\* send_admin_report_email: the outbox after the attempt; ADMIN_INBOX is set
send_admin_report_email(box, kind, t, smtp_ok) ==
    IF smtp_ok THEN Append(box, [kind |-> kind, at |-> t]) ELSE box

\* send_weekly_report_if_due up to its last return: TRUE when it goes on to
\* build and send the report.  This one sends whatever report_log holds.
weekly_report_due_unlogged(log, now_dt) ==
    /\ AUTO_WEEKLY_REPORT
    /\ ~(weekday(now_dt) # REPORT_WEEKDAY \/ hour(now_dt) # REPORT_HOUR)

\* send_weekly_report_if_due up to its last return, for a deployment whose
\* AUTO_WEEKLY_REPORT is auto_weekly_report
weekly_report_due_for(auto_weekly_report, log, now_dt) ==
    LET log_df == fetch_report_log(log, "weekly")
        last_sent == IF log_df # << >> THEN iso_to_dt(<<"iso", log_df[1].sent_at>>) ELSE None
    IN /\ auto_weekly_report
       /\ ~(weekday(now_dt) # REPORT_WEEKDAY \/ hour(now_dt) # REPORT_HOUR)
       /\ ~(log_df # << >> /\ last_sent # None /\ date(last_sent[1]) = date(now_dt))

weekly_report_due(log, now_dt) == weekly_report_due_for(AUTO_WEEKLY_REPORT, log, now_dt)

\* ------------------------------------------------------------------- Init
Init ==
    /\ now = 0
    /\ assets = seed_assets
    /\ bookings = << >>
    /\ bsess = [s \in Sessions |-> IdleRun]
    /\ submissions = << >>
    /\ status_log = << >>
    /\ adm = [s \in Sessions |-> IdleAdmin]
    /\ last = NoLast
    /\ sla = NoSla
    /\ report_log = << >>
    /\ outbox = << >>
    /\ proc = [s \in Sessions |-> IdleProc]

\* ---------------------------------------------------------------- actions
\* the clock advances
Tick ==
    /\ now < MaxTime
    /\ now' = now + 1
    /\ last' = NoLast
    /\ UNCHANGED <<assets, bookings, bsess, submissions, status_log, adm, sla, reportVars>>

\* CREATE TABLE IF NOT EXISTS on a table that exists, and migrate_db's tests
\* of columns that exist: the table is left as it is
create_table_if_not_exists(rows) == rows

\* seed_assets as INSERT OR REPLACE: a stored row is overwritten by its seed
seed_assets_insert_or_replace(tab) ==
    [a \in DOMAIN tab \cup DOMAIN seed_assets |->
        IF a \in DOMAIN seed_assets THEN seed_assets[a] ELSE tab[a]]

\* seed_assets: INSERT OR IGNORE of each seed row, asset_id being the key
seed_assets_insert_or_ignore(tab) ==
    [a \in DOMAIN tab \cup DOMAIN seed_assets |->
        IF a \in DOMAIN tab THEN tab[a] ELSE seed_assets[a]]

\* the tables of the database file
Database ==
    [assets |-> assets, bookings |-> bookings, submissions |-> submissions,
     status_log |-> status_log, report_log |-> report_log]

\* main()'s initialisation: init_db, migrate_db, init_booking_table,
\* init_assets_table, seed_assets
main_init(db) ==
    [assets |-> seed_assets_insert_or_ignore(create_table_if_not_exists(db.assets)),
     bookings |-> create_table_if_not_exists(db.bookings),
     submissions |-> create_table_if_not_exists(db.submissions),
     status_log |-> create_table_if_not_exists(db.status_log),
     report_log |-> create_table_if_not_exists(db.report_log)]

\* main(): a page load that serves no button
PageLoad ==
    LET db == main_init(Database)
    IN /\ assets' = sync_asset_statuses_from_bookings(db.assets, db.bookings, now)
       /\ bookings' = db.bookings
       /\ submissions' = db.submissions
       /\ status_log' = db.status_log
       /\ report_log' = db.report_log
       /\ UNCHANGED <<now, bsess, adm, last, sla, outbox, proc>>

\* page_booking's submit handler without its availability check
BookingOutcome_unchecked(tab, bks, asset_id, user_name, start_dt, end_dt, t) ==
    IF tab[asset_id].status # "available" THEN "not_available"
    ELSE IF user_name = "" THEN "no_name"
    ELSE IF start_dt < t THEN "past"
    ELSE IF end_dt <= start_dt THEN "bad_interval"
    ELSE "stored"

\* page_booking's submit handler without its test of the start against the clock
BookingOutcome_any_start(tab, bks, asset_id, user_name, start_dt, end_dt, t) ==
    IF tab[asset_id].status # "available" THEN "not_available"
    ELSE IF user_name = "" THEN "no_name"
    ELSE IF end_dt <= start_dt THEN "bad_interval"
    ELSE IF ~is_asset_available(bks, asset_id, start_dt, end_dt) THEN "conflict"
    ELSE "stored"

\* page_booking's submit handler without the return for an asset whose status
\* is not 'available'
BookingOutcome_ungated(tab, bks, asset_id, user_name, start_dt, end_dt, t) ==
    IF user_name = "" THEN "no_name"
    ELSE IF start_dt < t THEN "past"
    ELSE IF end_dt <= start_dt THEN "bad_interval"
    ELSE IF ~is_asset_available(bks, asset_id, start_dt, end_dt) THEN "conflict"
    ELSE "stored"

\* the outcome of page_booking's submit handler for one request, as the code
\* decides it, in the order of its returns
BookingOutcome(tab, bks, asset_id, user_name, start_dt, end_dt, t) ==
    IF tab[asset_id].status # "available" THEN "not_available"
    ELSE IF user_name = "" THEN "no_name"
    ELSE IF start_dt < t THEN "past"
    ELSE IF end_dt <= start_dt THEN "bad_interval"
    ELSE IF ~is_asset_available(bks, asset_id, start_dt, end_dt) THEN "conflict"
    ELSE "stored"

\* the INSERT as INSERT OR REPLACE keyed on the asset: a stored row of the same
\* asset is overwritten
InsertBooking_replacing(bks, asset_id, user_name, start_dt, end_dt, t) ==
    LET row == [asset_id |-> asset_id, user_name |-> user_name,
                start_time |-> start_dt, end_time |-> end_dt, created_at |-> t]
    IN IF \E i \in 1..Len(bks) : bks[i].asset_id = asset_id
       THEN [i \in 1..Len(bks) |-> IF bks[i].asset_id = asset_id THEN row ELSE bks[i]]
       ELSE Append(bks, row)

\* INSERT INTO bookings (asset_id, user_name, start_time, end_time, created_at)
InsertBooking(bks, asset_id, user_name, start_dt, end_dt, t) ==
    Append(bks, [asset_id |-> asset_id, user_name |-> user_name,
                 start_time |-> start_dt, end_time |-> end_dt, created_at |-> t])

\* the bookings table page_booking leaves: the row is inserted only when every
\* check passed
BookingsAfter(tab, bks, asset_id, user_name, start_dt, end_dt, t) ==
    IF BookingOutcome(tab, bks, asset_id, user_name, start_dt, end_dt, t) = "stored"
    THEN InsertBooking(bks, asset_id, user_name, start_dt, end_dt, t)
    ELSE bks

\* page_booking, one script run serving a submitted booking form: the sync and
\* fetch_assets at its top, the submit handler, the sync after the insert
page_booking(asset_id, user_name, start_dt, duration) ==
    LET end_dt == start_dt + duration
        shown == sync_asset_statuses_from_bookings(assets, bookings, now)
        bks2 == BookingsAfter(shown, bookings, asset_id, user_name, start_dt, end_dt, now)
    IN /\ Len(bookings) < MaxBookings
       /\ bookings' = bks2
       /\ assets' = sync_asset_statuses_from_bookings(shown, bks2, now)
       /\ UNCHANGED <<now, bsess>>
       /\ UNCHANGED <<issueVars, reportVars>>

BookingRequest ==
    \E asset_id \in BookableAssets, user_name \in UserNames,
       start_dt \in 0..MaxTime, duration \in Durations :
        page_booking(asset_id, user_name, start_dt, duration)

\* page_assets, the Move Asset button, and the page load st.rerun() starts
page_assets_move(asset_to_move, selected_location_id) ==
    LET moved == IF selected_location_id = assets[asset_to_move].location_id
                 THEN assets
                 ELSE [assets EXCEPT ![asset_to_move].location_id = selected_location_id]
    IN /\ assets' = sync_asset_statuses_from_bookings(moved, bookings, now)
       /\ UNCHANGED <<now, bookings, bsess>>
       /\ UNCHANGED <<issueVars, reportVars>>

MoveAsset ==
    \E asset_to_move \in MovableAssets, selected_location_id \in MoveTargets :
        page_assets_move(asset_to_move, selected_location_id)

Next == Tick \/ PageLoad \/ BookingRequest \/ MoveAsset

Spec == Init /\ [][Next]_vars

\* ----------------------------------- booking a room and what stands in it
\* the assets the selectbox offers here: a room and an asset located in it
InsideAssets == {"ROOM_A", "WHITEBOARD_1"}

BookingRequestInside ==
    \E asset_id \in InsideAssets, user_name \in UserNames,
       start_dt \in 0..MaxTime, duration \in Durations :
        page_booking(asset_id, user_name, start_dt, duration)

NextInside == Tick \/ BookingRequestInside

SpecInside == Init /\ [][NextInside]_vars

\* ------------------------------------------- booking, two runs interleaved
\* page_booking up to and including is_asset_available: the run of session s
\* goes on to the INSERT only when every check passed
page_booking_check(s, asset_id, user_name, start_dt, duration) ==
    LET end_dt == start_dt + duration
        shown == sync_asset_statuses_from_bookings(assets, bookings, now)
        passed == BookingOutcome(shown, bookings, asset_id, user_name,
                                 start_dt, end_dt, now) = "stored"
        running == { r \in Sessions : bsess[r].pc = "insert" }
    IN /\ bsess[s].pc = "idle"
       /\ Len(bookings) + Cardinality(running) < MaxBookings
       /\ assets' = shown
       /\ bsess' = [bsess EXCEPT ![s] =
                     IF passed
                     THEN [pc |-> "insert", asset_id |-> asset_id, user_name |-> user_name,
                           start_dt |-> start_dt, end_dt |-> end_dt]
                     ELSE IdleRun]
       /\ UNCHANGED <<now, bookings>>
       /\ UNCHANGED <<issueVars, reportVars>>

BookingCheck ==
    \E s \in Sessions, asset_id \in BookableAssets, user_name \in UserNames,
       start_dt \in 0..MaxTime, duration \in Durations :
        page_booking_check(s, asset_id, user_name, start_dt, duration)

\* page_booking from con.execute(INSERT) on: insert, commit, sync
page_booking_insert(s) ==
    LET r == bsess[s]
        bks2 == InsertBooking(bookings, r.asset_id, r.user_name, r.start_dt, r.end_dt, now)
    IN /\ r.pc = "insert"
       /\ bookings' = bks2
       /\ assets' = sync_asset_statuses_from_bookings(assets, bks2, now)
       /\ bsess' = [bsess EXCEPT ![s] = IdleRun]
       /\ UNCHANGED now
       /\ UNCHANGED <<issueVars, reportVars>>

BookingInsert == \E s \in Sessions : page_booking_insert(s)

NextRace == Tick \/ BookingCheck \/ BookingInsert

SpecRace == Init /\ [][NextRace]_vars

\* ------------------------------------------------------------------ issues
\* main() before the page runs: the sync of the asset statuses
main_sync == assets' = sync_asset_statuses_from_bookings(assets, bookings, now)

\* what the submission form may hold when Submit is pressed
ValidSubmission ==
    [ name |-> <<"A", "n", "n">>,
      hsg_email |-> <<"A", "n", "n", "@", "u", "n", "i", "s", "g", ".", "c", "h">>,
      issue_type |-> "Lighting issues",
      room_number |-> <<"a", "0", "9", "-", "0", "0", "1">>,
      importance |-> "High",
      user_comment |-> <<"d", "a", "r", "k">> ]
SubmissionInputs ==
    { ValidSubmission,
      [ValidSubmission EXCEPT !.hsg_email = <<"x", "@", "g", "m", "a", "i", "l", ".", "c", "o", "m">>],
      [ValidSubmission EXCEPT !.name = <<" ">>, !.room_number = <<"0", "9", "1">>] }

\* page_submission_form, one script run serving the Submit button
page_submission_form(form, smtp_ok) ==
    LET name == strip(form.name)
        hsg_email == strip(form.hsg_email)
        room_number_input == strip(form.room_number)
        user_comment == strip(form.user_comment)
        sub == [ name |-> name,
                 hsg_email |-> lower(strip(hsg_email)),
                 issue_type |-> form.issue_type,
                 room_number |-> normalize_room(room_number_input),
                 importance |-> form.importance,
                 user_comment |-> user_comment ]
        errors == validate_submission_input(sub)
    IN /\ main_sync
       /\ IF errors # << >>
          THEN /\ last' = [NoLast EXCEPT !.op = "submit", !.errors = errors, !.form = form]
               /\ UNCHANGED submissions
          ELSE /\ submissions' = insert_submission(submissions, sub, now)
               /\ last' = [NoLast EXCEPT !.op = "submit", !.id = Len(submissions) + 1,
                                         !.form = form,
                                         !.mail = send_email(sub.hsg_email, "confirmation", smtp_ok)]
       /\ UNCHANGED <<now, bookings, bsess, status_log, adm, sla, reportVars>>

SubmitIssue ==
    /\ Len(submissions) < MaxIssues
    /\ \E form \in SubmissionInputs, smtp_ok \in BOOLEAN : page_submission_form(form, smtp_ok)

\* the Login button authenticating whatever was entered
page_overwrite_status_login_any(s, entered_password) ==
    /\ adm[s].pc = "idle"
    /\ ~adm[s].auth
    /\ main_sync
    /\ adm' = [adm EXCEPT ![s].auth = TRUE]
    /\ last' = [NoLast EXCEPT !.op = "login", !.by = s, !.entered = entered_password]
    /\ UNCHANGED <<now, bookings, bsess, submissions, status_log, sla, reportVars>>

\* page_overwrite_status, the Login button
page_overwrite_status_login(s, entered_password) ==
    /\ adm[s].pc = "idle"
    /\ ~adm[s].auth
    /\ main_sync
    /\ adm' = [adm EXCEPT ![s].auth = (entered_password = ADMIN_PASSWORD)]
    /\ last' = [NoLast EXCEPT !.op = "login", !.by = s, !.entered = entered_password]
    /\ UNCHANGED <<now, bookings, bsess, submissions, status_log, sla, reportVars>>

AdminLogin ==
    \E s \in Sessions, entered_password \in PasswordInputs :
        page_overwrite_status_login(s, entered_password)

\* page_overwrite_status, the Logout button
page_overwrite_status_logout(s) ==
    /\ adm[s].pc = "idle"
    /\ adm[s].auth
    /\ main_sync
    /\ adm' = [adm EXCEPT ![s].auth = FALSE]
    /\ last' = [NoLast EXCEPT !.op = "logout", !.by = s]
    /\ UNCHANGED <<now, bookings, bsess, submissions, status_log, sla, reportVars>>

AdminLogout == \E s \in Sessions : page_overwrite_status_logout(s)

\* page_overwrite_status of a run serving Save Changes, up to the row it reads:
\* the authentication gate, fetch_submissions, the selected issue's row
page_overwrite_status_read(s, selected_id) ==
    /\ adm[s].pc = "idle"
    /\ adm[s].auth
    /\ selected_id \in 1..Len(submissions)
    /\ main_sync
    /\ adm' = [adm EXCEPT ![s] = [auth |-> TRUE, pc |-> "read", id |-> selected_id,
                                  status |-> submissions[selected_id].status,
                                  hsg_email |-> submissions[selected_id].hsg_email,
                                  name |-> submissions[selected_id].name]]
    /\ last' = NoLast
    /\ UNCHANGED <<now, bookings, bsess, submissions, status_log, sla, reportVars>>

AdminRead ==
    \E s \in Sessions, selected_id \in 1..MaxIssues : page_overwrite_status_read(s, selected_id)

\* "if submitted:" with the confirmation checkbox not looked at
page_overwrite_status_submitted_unconfirmed(subs, log, row, new_status, assigned_to_value, confirm_resolution, smtp_ok, t) ==
    LET upd == update_issue_admin_fields(subs, log, row.id, new_status,
                                         assigned_to_value, row.status, t)
    IN [op |-> "update", subs |-> upd.subs, log |-> upd.log,
        mail |-> IF new_status = "Resolved" /\ validate_admin_email(row.hsg_email) = << >>
                 THEN send_email(strip(row.hsg_email), "resolved", smtp_ok)
                 ELSE NoMail]

\* "if submitted:" of page_overwrite_status for the row the run read: what it
\* leaves in submissions and status_log, and the email it tried
page_overwrite_status_submitted(subs, log, row, new_status, assigned_to_value, confirm_resolution, smtp_ok, t) ==
    LET old_status == row.status
        upd == update_issue_admin_fields(subs, log, row.id, new_status,
                                         assigned_to_value, old_status, t)
        mail == IF new_status = "Resolved" /\ validate_admin_email(row.hsg_email) = << >>
                THEN send_email(strip(row.hsg_email), "resolved", smtp_ok)
                ELSE NoMail
    IN IF new_status = "Resolved" /\ ~confirm_resolution
       THEN [op |-> "unconfirmed", subs |-> subs, log |-> log, mail |-> NoMail]
       ELSE [op |-> "update", subs |-> upd.subs, log |-> upd.log, mail |-> mail]

\* page_overwrite_status of that run from "if submitted:" on.  The form's
\* values do not depend on the tables, so they are drawn here.
page_overwrite_status_save(s, new_status, assigned_to_value, confirm_resolution, smtp_ok) ==
    LET row == adm[s]
        out == page_overwrite_status_submitted(submissions, status_log, row, new_status,
                                               assigned_to_value, confirm_resolution,
                                               smtp_ok, now)
    IN /\ row.pc = "read"
       /\ Len(out.log) <= MaxLog
       /\ adm' = [adm EXCEPT ![s] = [IdleAdmin EXCEPT !.auth = TRUE]]
       /\ IF out.op = "unconfirmed"
          THEN /\ last' = [NoLast EXCEPT !.op = "unconfirmed", !.id = row.id]
               /\ submissions' = out.subs
               /\ status_log' = out.log
               /\ UNCHANGED assets
          ELSE /\ main_sync     \* st.rerun() starts the next run
               /\ submissions' = out.subs
               /\ status_log' = out.log
               /\ last' = [NoLast EXCEPT !.op = "update", !.id = row.id,
                                         !.logged = (Len(out.log) = Len(status_log) + 1),
                                         !.mail = out.mail]
       /\ UNCHANGED <<now, bookings, bsess, sla, reportVars>>

AdminSave ==
    \E s \in Sessions, new_status \in STATUS_LEVELS, assigned_to_value \in AssigneeInputs,
       confirm_resolution \in BOOLEAN, smtp_ok \in BOOLEAN :
        page_overwrite_status_save(s, new_status, assigned_to_value, confirm_resolution, smtp_ok)

\* the clock advances while the issue pages are in use
IssueTick ==
    /\ now < MaxIssueTime
    /\ now' = now + 1
    /\ last' = NoLast
    /\ UNCHANGED <<assets, bookings, bsess, submissions, status_log, adm, sla, reportVars>>

NextIssues == IssueTick \/ SubmitIssue \/ AdminLogin \/ AdminLogout \/ AdminRead \/ AdminSave

SpecIssues == Init /\ [][NextIssues]_vars

\* ------------------------------------------- several issues side by side
SubmitFrame ==
    /\ Len(submissions) < MaxFrameIssues
    /\ \E form \in SubmissionInputs, smtp_ok \in BOOLEAN : page_submission_form(form, smtp_ok)

AdminReadFrame ==
    \E s \in Sessions, selected_id \in 1..MaxFrameIssues : page_overwrite_status_read(s, selected_id)

NextFrame == SubmitFrame \/ AdminLogin \/ AdminReadFrame \/ AdminSave

SpecFrame == Init /\ [][NextFrame]_vars

\* ------------------------------------------ page loads over filled tables
\* page_overwrite_status, the Weekly Report button of an authenticated session
page_overwrite_status_weekly_report(s, smtp_ok) ==
    /\ adm[s].auth
    /\ adm[s].pc = "idle"
    /\ Len(report_log) < MaxManualReports
    /\ main_sync
    /\ outbox' = send_admin_report_email(outbox, "weekly_manual", now, smtp_ok)
    /\ report_log' = IF smtp_ok THEN mark_report_sent(report_log, "weekly_manual", now)
                     ELSE report_log
    /\ last' = [NoLast EXCEPT !.op = "manual_report", !.by = s]
    /\ UNCHANGED <<now, bookings, bsess, submissions, status_log, adm, sla, proc>>

ManualReport == page_overwrite_status_weekly_report("s1", TRUE)

\* one visitor and one admin fill the tables, one input each
SubmitOne ==
    /\ Len(submissions) < MaxIssues
    /\ page_submission_form(ValidSubmission, TRUE)

LoginOne == page_overwrite_status_login("s1", ADMIN_PASSWORD)

ReadOne == \E selected_id \in 1..MaxIssues : page_overwrite_status_read("s1", selected_id)

SaveOne == page_overwrite_status_save("s1", "In Progress", NULL, TRUE, TRUE)

BookOne == page_booking("ROOM_A", "Max", now, 1)

MoveOne == page_assets_move("CHAIR_H1", <<"R", "A", "09001">>)

NextPageLoad ==
    Tick \/ PageLoad \/ MoveOne \/ BookOne \/ SubmitOne \/ LoginOne \/ ReadOne \/ SaveOne \/ ManualReport

SpecPageLoad == Init /\ [][NextPageLoad]_vars

\* ------------------------------------------------------------ the form only
\* texts typed into the room field
FormRooms ==
    { lead \o <<letter>> \o sep \o digits :
        lead \in {<< >>, <<" ">>},
        letter \in {"a", "B", "7"},
        sep \in {<< >>, <<" ">>, <<" ", " ">>, <<"\t">>, <<"-">>},
        digits \in { <<"0", "9", "-", "0", "0", "1">>, <<"9", "-", "0", "0", "1", "1">> } }
FormEmails ==
    { <<"A", "@", "u", "n", "i", "s", "g", ".", "c", "h">>,
      <<"a", ".", "b", "@", "s", "t", "u", "d", "e", "n", "t", ".", "u", "n", "i", "s", "g", ".", "c", "h", " ">>,
      <<"x", "@", "g", "m", "a", "i", "l", ".", "c", "o", "m">>,
      << >> }
\* the other fields, each with values the form accepts and values it does not
FormOthers ==
    [ name : {<<"A", "n", "n">>, <<" ">>},
      hsg_email : FormEmails,
      issue_type : {"Lighting issues", "Other"},
      room_number : { <<"a", "0", "9", "-", "0", "0", "1">>, <<"0", "9", "1">> },
      importance : {"High", "Urgent"},
      user_comment : {<<"d", "a", "r", "k">>, << >>} ]
FormInputs ==
    FormOthers \cup { [ValidSubmission EXCEPT !.room_number = r] : r \in FormRooms }

SubmitForm ==
    /\ Len(submissions) < MaxIssues
    /\ \E form \in FormInputs, smtp_ok \in BOOLEAN : page_submission_form(form, smtp_ok)

NextForm == SubmitForm

SpecForm == Init /\ [][NextForm]_vars

\* --------------------------------------------------------------------- SLA
\* the arguments expected_resolution_dt is called with
IsoInputs == { <<"iso", t>> : t \in 0..MaxCreated } \cup { <<"yesterday">>, <<"none">> }
ImportanceInputs == IMPORTANCE_LEVELS \cup {"Unknown", ""}

SlaQuery ==
    /\ \E created_at_iso \in IsoInputs, importance \in ImportanceInputs :
          sla' = [created_at_iso |-> created_at_iso, importance |-> importance,
                  result |-> expected_resolution_dt(created_at_iso, importance)]
    /\ UNCHANGED <<now, assets, bookings, bsess, submissions, status_log, adm, last, reportVars>>

NextSLA == SlaQuery

SpecSLA == Init /\ [][NextSLA]_vars

\* ----------------------------------------------------------------- reports
\* the clock advances while pages are loaded
ReportTick ==
    /\ now < MaxReportTime
    /\ now' = now + 1
    /\ last' = NoLast
    /\ UNCHANGED <<assets, bookings, bsess, submissions, status_log, adm, sla, reportVars>>

\* the report email send_weekly_report_if_due tried: (ok, msg) of
\* send_admin_report_email
ReportMail(smtp_ok) == [kind |-> "weekly", to |-> << >>, ok |-> smtp_ok, raised |-> FALSE]

\* send_weekly_report_if_due calling mark_report_sent whatever the send returned
main_report_marking_always(smtp_ok) ==
    /\ main_sync
    /\ IF weekly_report_due(report_log, now)
       THEN /\ outbox' = send_admin_report_email(outbox, "weekly", now, smtp_ok)
            /\ report_log' = mark_report_sent(report_log, "weekly", now)
            /\ last' = [NoLast EXCEPT !.op = "report", !.mail = ReportMail(smtp_ok)]
       ELSE /\ UNCHANGED <<report_log, outbox>>
            /\ last' = [NoLast EXCEPT !.op = "report"]
    /\ UNCHANGED <<now, bookings, bsess, submissions, status_log, adm, sla, proc>>

\* main() of one script run, from the sync to the end of
\* send_weekly_report_if_due, with no other run in between
main_report(smtp_ok) ==
    /\ main_sync
    /\ IF weekly_report_due(report_log, now)
       THEN /\ outbox' = send_admin_report_email(outbox, "weekly", now, smtp_ok)
            /\ report_log' = IF smtp_ok THEN mark_report_sent(report_log, "weekly", now)
                             ELSE report_log
            /\ last' = [NoLast EXCEPT !.op = "report", !.mail = ReportMail(smtp_ok)]
       ELSE /\ UNCHANGED <<report_log, outbox>>
            /\ last' = [NoLast EXCEPT !.op = "report"]
    /\ UNCHANGED <<now, bookings, bsess, submissions, status_log, adm, sla, proc>>

MainReport == \E smtp_ok \in BOOLEAN : main_report(smtp_ok)

NextReport == ReportTick \/ MainReport

SpecReport == Init /\ [][NextReport]_vars

\* the clock advances while the sessions' runs interleave
ReportRaceTick ==
    /\ now < MaxReportRaceTime
    /\ now' = now + 1
    /\ last' = NoLast
    /\ UNCHANGED <<assets, bookings, bsess, submissions, status_log, adm, sla, reportVars>>

\* The script runs of the sessions as threads: send_weekly_report_if_due up to
\* fetch_report_log and the date test ...
main_report_check(s) ==
    /\ proc[s].pc = "idle"
    /\ main_sync
    /\ last' = [NoLast EXCEPT !.op = "report"]
    /\ proc' = [proc EXCEPT ![s] = IF weekly_report_due(report_log, now)
                                   THEN [pc |-> "report_send"] ELSE IdleProc]
    /\ UNCHANGED <<now, bookings, bsess, submissions, status_log, adm, sla, report_log, outbox>>

ReportCheck == \E s \in Sessions : main_report_check(s)

\* ... and from build_weekly_report to mark_report_sent
main_report_send(s, smtp_ok) ==
    /\ proc[s].pc = "report_send"
    /\ outbox' = send_admin_report_email(outbox, "weekly", now, smtp_ok)
    /\ report_log' = IF smtp_ok THEN mark_report_sent(report_log, "weekly", now)
                     ELSE report_log
    /\ proc' = [proc EXCEPT ![s] = IdleProc]
    /\ last' = [NoLast EXCEPT !.op = "report"]
    /\ UNCHANGED <<now, assets, bookings, bsess, submissions, status_log, adm, sla>>

ReportSend == \E s \in Sessions, smtp_ok \in BOOLEAN : main_report_send(s, smtp_ok)

NextReportRace == ReportRaceTick \/ ReportCheck \/ ReportSend

SpecReportRace == Init /\ [][NextReportRace]_vars

\* ------------------------------------------ the sync, statement by statement
\* sync_asset_statuses_from_bookings of one script run up to its first
\* commit: now_iso is taken, every status is set to 'available', committed
sync_reset(s) ==
    /\ proc[s].pc \in {"idle", "seen"}
    /\ assets' = [a \in DOMAIN assets |-> [assets[a] EXCEPT !.status = "available"]]
    /\ proc' = [proc EXCEPT ![s] = [pc |-> "sync_mark", now_iso |-> now]]
    /\ last' = NoLast
    /\ UNCHANGED <<now, bookings, bsess, submissions, status_log, adm, sla, report_log, outbox>>

SyncReset == \E s \in Sessions : sync_reset(s)

\* ... and from the SELECT of the active bookings to the second commit
sync_mark(s) ==
    /\ proc[s].pc = "sync_mark"
    /\ assets' = SyncLoop(assets, bookings, ActiveRows(assets, bookings, proc[s].now_iso))
    /\ proc' = [proc EXCEPT ![s] = IdleProc]
    /\ last' = NoLast
    /\ UNCHANGED <<now, bookings, bsess, submissions, status_log, adm, sla, report_log, outbox>>

SyncMark == \E s \in Sessions : sync_mark(s)

\* fetch_assets of a script run that is past its own syncs: the DataFrame the
\* page renders and takes the selected asset's status from
fetch_assets(s) ==
    /\ proc[s].pc \in {"idle", "seen"}
    /\ proc' = [proc EXCEPT ![s] = [pc |-> "seen", assets_df |-> assets]]
    /\ last' = NoLast
    /\ UNCHANGED <<now, assets, bookings, bsess, submissions, status_log, adm, sla,
                   report_log, outbox>>

FetchAssets == \E s \in Sessions : fetch_assets(s)

NextSyncRace == Tick \/ BookingRequest \/ SyncReset \/ SyncMark \/ FetchAssets

SpecSyncRace == Init /\ [][NextSyncRace]_vars

\* ------------------------- the admin update, statement by statement
\* what the one connection has committed: every script run's statements join
\* the transaction that is open on it
Tables == [subs |-> submissions, log |-> status_log]
InTransaction(s) == proc[s].pc = "insert"
Committed == IF \E s \in Sessions : InTransaction(s)
             THEN proc[CHOOSE s \in Sessions : InTransaction(s)].committed
             ELSE Tables
CommitAll(pr, tabs) ==
    [s \in Sessions |-> IF pr[s].pc = "insert" THEN [pr[s] EXCEPT !.committed = tabs]
                        ELSE pr[s]]

\* a submission arriving while no admin transaction is open
SubmitIssueQuiet ==
    /\ \A s \in Sessions : ~InTransaction(s)
    /\ SubmitIssue

\* update_issue_admin_fields of an admin's Save, up to and including its
\* UPDATE: "with con:" is entered, the row is written, nothing is committed
update_issue_update(s, issue_id, new_status, assigned_to) ==
    LET old_status == submissions[issue_id].status
        upd == update_issue_admin_fields(submissions, status_log, issue_id, new_status,
                                         assigned_to, old_status, now)
    IN /\ proc[s].pc \in {"idle", "seen"}
       /\ issue_id \in 1..Len(submissions)
       /\ Len(upd.log) <= MaxLog
       /\ submissions' = upd.subs
       /\ IF new_status # old_status
          THEN /\ proc' = [proc EXCEPT ![s] = [pc |-> "insert", issue_id |-> issue_id,
                                               old_status |-> old_status,
                                               new_status |-> new_status,
                                               before |-> Committed.subs[issue_id],
                                               committed |-> Committed]]
               /\ last' = NoLast
          ELSE \* no INSERT follows: "with con:" commits on leaving
               /\ proc' = CommitAll([proc EXCEPT ![s] = IdleProc], [Tables EXCEPT !.subs = upd.subs])
               /\ last' = [NoLast EXCEPT !.op = "committed", !.id = issue_id, !.by = s]
       /\ UNCHANGED <<now, assets, bookings, bsess, status_log, adm, sla, report_log, outbox>>

UpdateIssueUpdate ==
    \E s \in Sessions, issue_id \in 1..MaxIssues, new_status \in STATUS_LEVELS,
       assigned_to \in AssigneeInputs : update_issue_update(s, issue_id, new_status, assigned_to)

\* ... and its INSERT into status_log.  The statement succeeds and "with con:"
\* commits, or it raises (sqlite3.OperationalError) and "with con:" rolls the
\* connection back to what was last committed on it.
update_issue_insert(s, insert_ok) ==
    LET run == proc[s]
        log == Append(status_log, [submission_id |-> run.issue_id,
                                   old_status |-> run.old_status,
                                   new_status |-> run.new_status])
    IN /\ run.pc = "insert"
       /\ IF insert_ok
          THEN /\ status_log' = log
               /\ UNCHANGED submissions
               /\ proc' = CommitAll([proc EXCEPT ![s] = IdleProc], [Tables EXCEPT !.log = log])
               /\ last' = [NoLast EXCEPT !.op = "committed", !.id = run.issue_id, !.by = s]
          ELSE /\ submissions' = run.committed.subs
               /\ status_log' = run.committed.log
               /\ proc' = [proc EXCEPT ![s] = IdleProc]
               /\ last' = [NoLast EXCEPT !.op = "rolled_back", !.id = run.issue_id, !.by = s]
       /\ UNCHANGED <<now, assets, bookings, bsess, adm, sla, report_log, outbox>>

UpdateIssueInsert == \E s \in Sessions, insert_ok \in BOOLEAN : update_issue_insert(s, insert_ok)

\* main() of another session's script run: the sync's con.commit() commits
\* whatever is pending on the connection
main_sync_commit(r) ==
    /\ proc[r].pc \in {"idle", "seen"}
    /\ main_sync
    /\ proc' = CommitAll([proc EXCEPT ![r] = IdleProc], Tables)
    /\ last' = NoLast
    /\ UNCHANGED <<now, bookings, bsess, submissions, status_log, adm, sla, report_log, outbox>>

MainSyncCommit == \E r \in Sessions : main_sync_commit(r)

\* fetch_submissions and fetch_status_log of a script run rendering the
\* issues: the two DataFrames it shows
fetch_submissions(r) ==
    /\ proc[r].pc \in {"idle", "seen"}
    /\ proc' = [proc EXCEPT ![r] = [pc |-> "seen", df |-> submissions, log_df |-> status_log]]
    /\ last' = NoLast
    /\ UNCHANGED <<now, assets, bookings, bsess, submissions, status_log, adm, sla,
                   report_log, outbox>>

FetchSubmissions == \E r \in Sessions : fetch_submissions(r)

NextUpdateRace ==
    SubmitIssueQuiet \/ UpdateIssueUpdate \/ UpdateIssueInsert \/ MainSyncCommit \/ FetchSubmissions

SpecUpdateRace == Init /\ [][NextUpdateRace]_vars

\* ================================================================ claims
\* the half hours of the half-open interval [s, e)
Slots(s, e) == s..(e - 1)
Intersect(s1, e1, s2, e2) == Slots(s1, e1) \cap Slots(s2, e2) # {}
RowsOf(asset_id) == { i \in 1..Len(bookings) : bookings[i].asset_id = asset_id }
Horizon == MaxTime + MaxDuration
Intervals == { <<s, e>> \in (0..Horizon) \X (0..Horizon) : s < e }

\* C1: with requests served one at a time, any two distinct stored bookings of
\* one asset satisfy b1.start >= b2.end or b2.start >= b1.end
C1_NoOverlapPersists ==
    \A i, j \in 1..Len(bookings) :
        (i # j /\ bookings[i].asset_id = bookings[j].asset_id)
        => (bookings[i].start_time >= bookings[j].end_time
            \/ bookings[j].start_time >= bookings[i].end_time)

C1_Witness ==
    \E i, j \in 1..Len(bookings) :
        i # j /\ bookings[i].asset_id = bookings[j].asset_id

\* C2: booking creation is atomic: whatever the interleaving of the checks and
\* inserts of two sessions, of two overlapping requests for one asset at most
\* one is stored, so no half hour of an asset is held by two stored bookings
C2_AtMostOneOfTwoStored ==
    \A a \in AssetIds : \A t \in 0..Horizon :
        Cardinality({ i \in RowsOf(a) :
                        bookings[i].start_time <= t /\ t < bookings[i].end_time }) <= 1

\* C3: is_asset_available answers true exactly when no stored booking of the
\* asset shares a half hour with the asked interval; for every stored booking
\* [s,e) it answers false for every interval that intersects [s,e) and, when the
\* asset has no other booking, true for every interval outside [s,e), touching
\* ones included
C3_AvailabilityQuery ==
    /\ \A a \in AssetIds : \A iv \in Intervals :
          is_asset_available(bookings, a, iv[1], iv[2])
          <=> (\A i \in RowsOf(a) :
                  ~Intersect(bookings[i].start_time, bookings[i].end_time, iv[1], iv[2]))
    /\ \A i \in 1..Len(bookings) : \A iv \in Intervals :
          LET b == bookings[i] IN
          /\ Intersect(b.start_time, b.end_time, iv[1], iv[2])
             => ~is_asset_available(bookings, b.asset_id, iv[1], iv[2])
          /\ (RowsOf(b.asset_id) = {i} /\ (iv[2] <= b.start_time \/ iv[1] >= b.end_time))
             => is_asset_available(bookings, b.asset_id, iv[1], iv[2])

C3_Witness ==
    \E i \in 1..Len(bookings) :
        /\ RowsOf(bookings[i].asset_id) = {i}
        /\ bookings[i].start_time > 0
        /\ is_asset_available(bookings, bookings[i].asset_id, 0, bookings[i].start_time)
        /\ ~is_asset_available(bookings, bookings[i].asset_id, 0, bookings[i].end_time)

\* C4: with a booking [s,e) stored, a request on the same asset whose interval
\* overlaps [s,e) leaves the bookings table as it is, and is answered as a
\* conflict when it passes the checks before the availability check; a request
\* that starts exactly at e and meets the other preconditions is stored
C4_ConflictAndTouching ==
    LET shown == sync_asset_statuses_from_bookings(assets, bookings, now) IN
    \A i \in 1..Len(bookings) : \A d \in Durations : \A u \in UserNames :
        LET b == bookings[i]
            a == b.asset_id
        IN /\ \A s \in 0..MaxTime :
                Intersect(b.start_time, b.end_time, s, s + d)
                => /\ BookingsAfter(shown, bookings, a, u, s, s + d, now) = bookings
                   /\ (shown[a].status = "available" /\ u # "" /\ s >= now)
                      => BookingOutcome(shown, bookings, a, u, s, s + d, now) = "conflict"
           /\ ( /\ shown[a].status = "available" /\ u # "" /\ b.end_time >= now
                /\ \A j \in RowsOf(a) :
                      ~Intersect(bookings[j].start_time, bookings[j].end_time,
                                 b.end_time, b.end_time + d) )
              => BookingsAfter(shown, bookings, a, u, b.end_time, b.end_time + d, now)
                 = Append(bookings, [asset_id |-> a, user_name |-> u,
                                     start_time |-> b.end_time,
                                     end_time |-> b.end_time + d, created_at |-> now])

C4_Witness ==
    \E i, j \in 1..Len(bookings) :
        /\ i < j
        /\ bookings[i].asset_id = bookings[j].asset_id
        /\ bookings[j].start_time = bookings[i].end_time

\* a booking of the asset holds t
HasActiveBooking(bks, asset_id, t) ==
    \E i \in 1..Len(bks) :
        bks[i].asset_id = asset_id /\ bks[i].start_time <= t /\ t < bks[i].end_time

\* the asset is a non-Room at the location of a Room-type asset booked at t
InBookedRoom(tab, bks, a, t) ==
    /\ tab[a].asset_type # "Room"
    /\ \E r \in DOMAIN tab :
          /\ tab[r].asset_type = "Room"
          /\ tab[r].location_id = tab[a].location_id
          /\ HasActiveBooking(bks, r, t)

\* as InBookedRoom, the Room standing at a room location (an id that starts "R_")
InBookedRoomAtRoomLocation(tab, bks, a, t) ==
    /\ tab[a].asset_type # "Room"
    /\ \E r \in DOMAIN tab :
          /\ tab[r].asset_type = "Room"
          /\ tab[r].location_id = tab[a].location_id
          /\ is_room_location(tab[r].location_id)
          /\ HasActiveBooking(bks, r, t)

\* C5 as claimed: after a sync at now an asset is 'booked' iff it has a booking
\* holding now or is a non-Room at the location of a Room-type asset that has
\* one, and 'available' otherwise (every step that keeps the clock ends in a sync)
C5_Original ==
    [][ now' = now =>
          \A a \in DOMAIN assets' :
             /\ assets'[a].status \in {"booked", "available"}
             /\ assets'[a].status = "booked"
                <=> (HasActiveBooking(bookings', a, now')
                     \/ InBookedRoom(assets', bookings', a, now')) ]_vars

\* C5 amended: as claimed, the Room-type asset standing at a room location
\* (a location id that starts with "R_")
C5_SyncProjection ==
    [][ now' = now =>
          \A a \in DOMAIN assets' :
             /\ assets'[a].status \in {"booked", "available"}
             /\ assets'[a].status = "booked"
                <=> (HasActiveBooking(bookings', a, now')
                     \/ InBookedRoomAtRoomLocation(assets', bookings', a, now')) ]_vars

\* a booked Room marks the screen beside it, and neither the Room-type asset at
\* the same location nor the table located in the booked asset
C5_Witness ==
    /\ HasActiveBooking(bookings, "MEETING_1", now)
    /\ assets["SCREEN_1"].status = "booked"
    /\ assets["ROOM_B"].status = "available"
    /\ assets["TABLE_1"].status = "available"

\* C6 as claimed: for every Room-type asset with a booking holding now, a
\* refresh marks every non-Room asset at the Room's location booked
C6_Original ==
    [][ now' = now =>
          \A r \in DOMAIN assets' :
             (assets'[r].asset_type = "Room" /\ HasActiveBooking(bookings', r, now'))
             => \A a \in DOMAIN assets' :
                   (assets'[a].asset_type # "Room"
                    /\ assets'[a].location_id = assets'[r].location_id)
                   => assets'[a].status = "booked" ]_vars

\* C6 amended: for every Room-type asset standing at a room location (id starts
\* with "R_"), wherever assets were moved: while a booking of the Room holds
\* now, a refresh marks every non-Room asset at its location booked; and a
\* refresh makes a booked non-Room asset available again when neither a booking
\* of its own nor one of such a Room at its location holds now
C6_RoomPropagation ==
    [][ now' = now =>
          /\ \A r \in DOMAIN assets' :
                ( /\ assets'[r].asset_type = "Room"
                  /\ is_room_location(assets'[r].location_id)
                  /\ HasActiveBooking(bookings', r, now') )
                => \A a \in DOMAIN assets' :
                      (assets'[a].asset_type # "Room"
                       /\ assets'[a].location_id = assets'[r].location_id)
                      => assets'[a].status = "booked"
          /\ \A a \in DOMAIN assets' :
                ( /\ assets'[a].asset_type # "Room"
                  /\ assets[a].status = "booked"
                  /\ ~HasActiveBooking(bookings', a, now')
                  /\ ~InBookedRoomAtRoomLocation(assets', bookings', a, now') )
                => assets'[a].status = "available" ]_vars

\* the chair moved into the booked Room's location is booked with it
C6_Witness ==
    /\ assets["CHAIR_H1"].location_id = assets["ROOM_A"].location_id
    /\ is_room_location(assets["ROOM_A"].location_id)
    /\ HasActiveBooking(bookings, "ROOM_A", now)
    /\ ~HasActiveBooking(bookings, "CHAIR_H1", now)
    /\ assets["CHAIR_H1"].status = "booked"

\* C7: expected_resolution_dt(created_at, priority) returns created_at + 24h
\* for High, + 72h for Medium, + 120h for Low, and None when the priority is
\* any other value or created_at does not parse; the call leaves every stored
\* table as it was.
C7_Result ==
    LET created == sla.created_at_iso
        parsed == Len(created) = 2 /\ created[1] = "iso"
    IN /\ (parsed /\ sla.importance = "High")
            => sla.result = Some(created[2] + 24 * SlotsPerHour)
       /\ (parsed /\ sla.importance = "Medium")
            => sla.result = Some(created[2] + 72 * SlotsPerHour)
       /\ (parsed /\ sla.importance = "Low")
            => sla.result = Some(created[2] + 120 * SlotsPerHour)
       /\ (~parsed \/ sla.importance \notin {"High", "Medium", "Low"})
            => sla.result = None
C7_ExpectedResolution ==
    [](C7_Result) /\ [][UNCHANGED <<assets, bookings, submissions, status_log>>]_vars
C7_Witness ==
    /\ sla.created_at_iso = <<"iso", 3>>
    /\ sla.importance = "Low"
    /\ sla.result = Some(3 + 240)

\* C8: every admin status update appends exactly one status_log row when the
\* issue's stored status before the update differs from the new status and no
\* row when they are equal, also when several admin sessions each read the
\* issue before the other wrote.
C8_OneLogRowIffStatusChanged ==
    [][last'.op = "update" =>
          IF submissions[last'.id].status # submissions'[last'.id].status
          THEN Len(status_log') = Len(status_log) + 1
          ELSE status_log' = status_log]_vars

\* C9: an issue's resolved_at is written at most once: the first update whose
\* new status is Resolved sets it to the time of that update, and no later
\* update changes or clears it.
C9_ResolvedAtWrittenOnce ==
    [][\A i \in DOMAIN submissions :
          /\ i \in DOMAIN submissions'
          /\ submissions[i].resolved_at # None
                => submissions'[i].resolved_at = submissions[i].resolved_at
          /\ (submissions[i].resolved_at = None /\ last'.op = "update" /\ last'.id = i)
                => submissions'[i].resolved_at =
                      IF submissions'[i].status = "Resolved" THEN Some(now) ELSE None
          /\ (submissions[i].resolved_at = None /\ ~(last'.op = "update" /\ last'.id = i))
                => submissions'[i].resolved_at = None]_vars
\* resolved earlier, and a later update has left resolved_at as it was
C9_Witness ==
    \E i \in DOMAIN submissions :
        /\ submissions[i].resolved_at # None
        /\ submissions[i].resolved_at[1] < now
        /\ last.op = "update" /\ last.id = i

\* C10: a failed email never undoes the state change that triggered it: after
\* a failed resolution notice the issue has status Resolved, a resolved_at and
\* the status_log row of the update; after a failed confirmation the new issue
\* is stored; the failure comes back as a value and is not raised.
C10_FailedMailKeepsState ==
    /\ (last.op = "update" /\ last.mail.kind = "resolved" /\ ~last.mail.ok)
          => /\ ~last.mail.raised
             /\ submissions[last.id].status = "Resolved"
             /\ submissions[last.id].resolved_at # None
             /\ last.logged
                   => /\ status_log[Len(status_log)].submission_id = last.id
                      /\ status_log[Len(status_log)].new_status = "Resolved"
    /\ (last.op = "submit" /\ last.mail.kind = "confirmation" /\ ~last.mail.ok)
          => /\ ~last.mail.raised
             /\ last.id = Len(submissions)
             /\ submissions[last.id].status = "Pending"
C10_Witness ==
    /\ last.op = "update"
    /\ last.mail.kind = "resolved"
    /\ ~last.mail.ok
    /\ last.logged
    /\ submissions[last.id].status = "Resolved"

\* C11: when send_weekly_report_if_due is called again, one call after the
\* other, on a calendar day on which a weekly email was already sent
\* successfully, the call sends no email and writes no report_log row.
WeeklySentOn(d) == {k \in DOMAIN outbox : outbox[k].kind = "weekly" /\ date(outbox[k].at) = d}
C11_SecondCallSendsNothing ==
    [][(last'.op = "report" /\ WeeklySentOn(date(now)) # {})
          => (outbox' = outbox /\ report_log' = report_log)]_vars
\* a second call in the due hour of the day the report went out
C11_Witness ==
    /\ last.op = "report"
    /\ weekday(now) = REPORT_WEEKDAY /\ hour(now) = REPORT_HOUR
    /\ Cardinality(WeeklySentOn(date(now))) = 1
    /\ \E k \in WeeklySentOn(date(now)) : outbox[k].at < now
    /\ Len(report_log) = 1

\* C18: at most one automatic weekly summary email is sent per calendar day,
\* for every interleaving of page loads of the sessions in the due hour.
C18_AtMostOneWeeklyPerDay ==
    \A d \in 0..date(MaxReportTime + 1) : Cardinality(WeeklySentOn(d)) <= 1

\* C12: every room_number stored in submissions is in the canonical form
\* uppercase letter, one space, two digits, dash, three digits; the input
\* "a09-001" is stored as "A 09-001"; normalize_room of a canonical value
\* returns it unchanged.
IsCanonicalRoom(r) ==
    /\ Len(r) = 8
    /\ IsUpper(r[1])
    /\ r[2] = " "
    /\ IsDigit(r[3]) /\ IsDigit(r[4]) /\ r[5] = "-"
    /\ IsDigit(r[6]) /\ IsDigit(r[7]) /\ IsDigit(r[8])
C12_StoredRoomCanonical ==
    /\ \A i \in DOMAIN submissions :
          /\ IsCanonicalRoom(submissions[i].room_number)
          /\ normalize_room(submissions[i].room_number) = submissions[i].room_number
    /\ (last.op = "submit" /\ last.errors = << >>
          /\ last.form.room_number = <<"a", "0", "9", "-", "0", "0", "1">>)
          => submissions[last.id].room_number = <<"A", " ", "0", "9", "-", "0", "0", "1">>
    /\ \A r \in FormRooms : IsCanonicalRoom(r) => normalize_room(r) = r
C12_Witness ==
    /\ last.op = "submit"
    /\ last.form.room_number = <<"a", "0", "9", "-", "0", "0", "1">>
    /\ last.id \in DOMAIN submissions
    /\ submissions[last.id].room_number = <<"A", " ", "0", "9", "-", "0", "0", "1">>

\* C13: a submission with any invalid field (empty name, email not ending in
\* @unisg.ch or @student.unisg.ch, malformed room, issue type or priority
\* outside the closed lists, empty description) is rejected with one error per
\* invalid field naming that field; no submissions row is inserted and no
\* email is sent.
EndsWith(str, suffix) ==
    Len(str) >= Len(suffix) /\ SubSeq(str, Len(str) - Len(suffix) + 1, Len(str)) = suffix
ErrorField(msg) ==
    CASE msg \in {"Name is required."} -> "name"
      [] msg \in {"HSG email address is required.", "Invalid email address."} -> "hsg_email"
      [] msg \in {"Room number is required.", "Invalid room number format."} -> "room_number"
      [] msg \in {"Invalid issue type selection."} -> "issue_type"
      [] msg \in {"Invalid importance selection."} -> "importance"
      [] msg \in {"Problem description is required."} -> "user_comment"
InvalidFields(form) ==
    (IF strip(form.name) = << >> THEN {"name"} ELSE {})
    \cup (IF ~EndsWith(lower(strip(form.hsg_email)), <<"@", "u", "n", "i", "s", "g", ".", "c", "h">>)
             /\ ~EndsWith(lower(strip(form.hsg_email)),
                          <<"@", "s", "t", "u", "d", "e", "n", "t", ".", "u", "n", "i", "s", "g", ".", "c", "h">>)
          THEN {"hsg_email"} ELSE {})
    \cup (IF ~IsCanonicalRoom(normalize_room(form.room_number)) THEN {"room_number"} ELSE {})
    \cup (IF form.issue_type \notin ISSUE_TYPES THEN {"issue_type"} ELSE {})
    \cup (IF form.importance \notin IMPORTANCE_LEVELS THEN {"importance"} ELSE {})
    \cup (IF strip(form.user_comment) = << >> THEN {"user_comment"} ELSE {})
C13_InvalidSubmissionRejected ==
    [][(last'.op = "submit" /\ InvalidFields(last'.form) # {})
          => LET named == {ErrorField(last'.errors[k]) : k \in DOMAIN last'.errors}
             IN /\ InvalidFields(last'.form) \subseteq named
                /\ Cardinality(named) = Len(last'.errors)
                /\ submissions' = submissions
                /\ last'.mail = NoMail]_vars
\* "x@gmail.com" together with a second invalid field
C13_Witness ==
    /\ last.op = "submit"
    /\ last.form.hsg_email = <<"x", "@", "g", "m", "a", "i", "l", ".", "c", "o", "m">>
    /\ Cardinality(InvalidFields(last.form)) >= 2
    /\ Len(last.errors) = Cardinality(InvalidFields(last.form))
    /\ submissions = << >>

\* C14: every stored booking has end > start and a start that is not earlier
\* than the clock time at which its request was validated; a request with
\* start in the past, with end <= start, or with an empty requester name
\* stores nothing.
C14_BookingPreconditions ==
    LET shown == sync_asset_statuses_from_bookings(assets, bookings, now) IN
    /\ \A i \in 1..Len(bookings) :
          /\ bookings[i].end_time > bookings[i].start_time
          /\ bookings[i].start_time >= bookings[i].created_at
          /\ bookings[i].user_name # ""
    /\ \A a \in BookableAssets, u \in UserNames, s \in 0..Horizon, e \in 0..Horizon :
          (s < now \/ e <= s \/ u = "")
             => BookingsAfter(shown, bookings, a, u, s, e, now) = bookings
\* a booking stored with its start at the clock of its request, and the clock
\* has moved on since, so that requests for the past exist
C14_Witness ==
    /\ now > 0
    /\ \E i \in 1..Len(bookings) : bookings[i].start_time = bookings[i].created_at
    /\ \E i \in 1..Len(bookings) : bookings[i].created_at = now

\* C15: next_available_time(asset) returns the smallest end among the asset's
\* bookings with end > now, and None when the asset has no booking with
\* end > now; it is a query and changes no stored state.
C15_NextAvailableTime ==
    \A a \in AssetIds :
        LET r == next_available_time(bookings, a, now)
            future == {i \in RowsOf(a) : bookings[i].end_time > now}
        IN /\ (future = {}) <=> (r = None)
           /\ r # None
                => /\ \E i \in future : bookings[i].end_time = r[1]
                   /\ \A i \in future : r[1] <= bookings[i].end_time
\* one booking of the asset ends now, a later one is still to end
C15_Witness ==
    \E i, j \in 1..Len(bookings) :
        /\ bookings[i].asset_id = bookings[j].asset_id
        /\ bookings[i].end_time = now
        /\ bookings[j].end_time > now
        /\ next_available_time(bookings, bookings[i].asset_id, now) = Some(bookings[j].end_time)

\* C16: no issue's status, assignee or resolved_at is changed and no
\* status_log row is written except by a session authenticated as admin; a
\* session becomes authenticated only by entering a password equal to
\* ADMIN_PASSWORD, a wrong password leaves it unauthenticated, logout makes it
\* unauthenticated again, and a login in one session authenticates no other.
AdminFieldsChanged ==
    \E i \in DOMAIN submissions :
        \/ submissions'[i].status # submissions[i].status
        \/ submissions'[i].assigned_to # submissions[i].assigned_to
        \/ submissions'[i].resolved_at # submissions[i].resolved_at
C16_AdminOnly ==
    [][/\ (AdminFieldsChanged \/ status_log' # status_log)
            => \E s \in Sessions : adm[s].auth /\ adm[s].pc = "read" /\ adm'[s].pc = "idle"
       /\ \A s \in Sessions :
            /\ (~adm[s].auth /\ adm'[s].auth)
                  => (last'.op = "login" /\ last'.by = s /\ last'.entered = ADMIN_PASSWORD)
            /\ (last'.op = "login" /\ last'.by = s)
                  => /\ adm'[s].auth <=> (last'.entered = ADMIN_PASSWORD)
                     /\ \A o \in Sessions \ {s} : adm'[o].auth = adm[o].auth
            /\ (last'.op = "logout" /\ last'.by = s) => ~adm'[s].auth]_vars
\* a wrong password in one session while the other is logged in and has
\* updated an issue
C16_Witness ==
    /\ last.op = "login"
    /\ last.entered # ADMIN_PASSWORD
    /\ ~adm[last.by].auth
    /\ \E o \in Sessions \ {last.by} : adm[o].auth
    /\ \E i \in DOMAIN submissions : submissions[i].status # "Pending"

\* C17: while one session executes sync_asset_statuses_from_bookings, no other
\* session reading the assets table observes an asset as 'available' at a time
\* when one of its bookings, or a booking of the Room containing it, holds now.
C17_NoHalfResetObserved ==
    [][\A r \in Sessions :
          ( /\ proc'[r].pc = "seen"
            /\ proc'[r] # proc[r]
            /\ \E s \in Sessions \ {r} : proc[s].pc = "sync_mark" )
          => \A a \in AssetIds :
                (HasActiveBooking(bookings, a, now) \/ InBookedRoom(assets, bookings, a, now))
                   => proc'[r].assets_df[a].status = "booked"]_vars

\* C19: an admin status update is atomic.  No reader sees an issue in a status
\* other than the one it was created with without a status_log row recording
\* the change to that status, and an update whose log insert failed leaves the
\* submissions row with the values committed before the update.
C19_NoStatusWithoutLog ==
    \A r \in Sessions :
        (proc'[r].pc = "seen" /\ proc'[r] # proc[r])
           => \A i \in DOMAIN proc'[r].df :
                 proc'[r].df[i].status # "Pending"
                    => \E k \in DOMAIN proc'[r].log_df :
                          /\ proc'[r].log_df[k].submission_id = i
                          /\ proc'[r].log_df[k].new_status = proc'[r].df[i].status
C19_FailedInsertRestoresRow ==
    last'.op = "rolled_back" => submissions'[last'.id] = proc[last'.by].before
C19_UpdateAtomic == [][C19_NoStatusWithoutLog /\ C19_FailedInsertRestoresRow]_vars

\* C20: no operation deletes a submissions row or a status_log row or changes
\* an existing status_log row; an admin update changes only the status,
\* assigned_to and resolved_at of the one selected issue and leaves every other
\* issue and every other column unchanged, and nothing else changes a stored
\* issue at all.
C20_Frame ==
    [][/\ Len(submissions') >= Len(submissions)
       /\ Len(status_log') >= Len(status_log)
       /\ \A k \in DOMAIN status_log : status_log'[k] = status_log[k]
       /\ \A i \in DOMAIN submissions :
             submissions'[i] # submissions[i]
                => /\ last'.op = "update"
                   /\ last'.id = i
                   /\ [submissions'[i] EXCEPT !.status = submissions[i].status,
                                              !.assigned_to = submissions[i].assigned_to,
                                              !.resolved_at = submissions[i].resolved_at]
                        = submissions[i]]_vars
\* an update has just changed and logged one of two stored issues while the
\* other is still as it was submitted
C20_Witness ==
    /\ last.op = "update"
    /\ last.logged
    /\ Len(submissions) = 2
    /\ submissions[last.id].status # "Pending"
    /\ \E j \in DOMAIN submissions : j # last.id /\ submissions[j].status = "Pending"

\* C21: the bookings table is append-only: a stored booking row keeps its
\* asset, requester, start and end and is never removed, whatever later booking
\* request, status refresh, asset move or page load follows.
C21_BookingsAppendOnly ==
    [][/\ Len(bookings') >= Len(bookings)
       /\ \A k \in DOMAIN bookings : bookings'[k] = bookings[k]]_vars
\* two bookings of one asset are stored, the later one requested after the
\* first, and an asset has been moved since
C21_Witness ==
    /\ Len(bookings) = 2
    /\ bookings[1].asset_id = bookings[2].asset_id
    /\ bookings[2].created_at > bookings[1].created_at
    /\ \E a \in AssetIds : assets[a].location_id # seed_assets[a].location_id

\* C22: for an asset identifier that is not in the assets table,
\* is_asset_available returns true for every interval and next_available_time
\* returns None; and the status refresh ignores a booking row whose asset
\* identifier matches no asset: with such a row in the table it leaves the
\* statuses it leaves without it.
UnknownAssets == {"GHOST_1"}
OrphanRow(asset_id, iv) ==
    [asset_id |-> asset_id, user_name |-> "ann", start_time |-> iv[1], end_time |-> iv[2],
     created_at |-> 0]
C22_UnknownAsset ==
    \A x \in UnknownAssets :
        /\ x \notin DOMAIN assets
        /\ \A iv \in Intervals :
              /\ is_asset_available(bookings, x, iv[1], iv[2])
              /\ sync_asset_statuses_from_bookings(assets, Append(bookings, OrphanRow(x, iv)), now)
                   = sync_asset_statuses_from_bookings(assets, bookings, now)
        /\ next_available_time(bookings, x, now) = None
\* the queries are made while a room's booking is running and another booking
\* is still to end
C22_Witness ==
    /\ \E i \in 1..Len(bookings) :
          /\ bookings[i].start_time <= now /\ now < bookings[i].end_time
          /\ assets[bookings[i].asset_id].status = "booked"
    /\ \E a \in AssetIds : next_available_time(bookings, a, now) # None
    /\ \A x \in UnknownAssets : next_available_time(bookings, x, now) = None

\* C23: an admin update attempts the resolution notification exactly when it
\* is a transition into Resolved: the stored status before the update is not
\* Resolved and the new status is Resolved.  An update that leaves a Resolved
\* issue at Resolved attempts none.
C23_NotifiedOnTransitionOnly ==
    [][last'.op = "update"
         => ( (last'.mail.kind = "resolved")
                <=> ( /\ submissions[last'.id].status # "Resolved"
                      /\ submissions'[last'.id].status = "Resolved" ) )]_vars

\* C24: in every reachable state every issue whose status is Resolved has a
\* non-empty resolved_at, and a resolved_at once written is never emptied: an
\* issue with an empty resolved_at has never been Resolved.
C24_ResolvedHasResolvedAt ==
    /\ [](\A i \in DOMAIN submissions :
             submissions[i].status = "Resolved" => submissions[i].resolved_at # None)
    /\ [][\A i \in DOMAIN submissions :
             submissions[i].resolved_at # None => submissions'[i].resolved_at # None]_vars
\* an issue that was resolved has been put back to another status and keeps
\* its resolved_at
C24_Witness ==
    \E i \in DOMAIN submissions :
        /\ submissions[i].status # "Resolved"
        /\ submissions[i].resolved_at # None

\* C25: under any interleaving of admin sessions the status_log rows of each
\* issue, in insertion order, form a chain: the first row's old_status is
\* Pending, each later row's old_status is the previous row's new_status, and
\* the last row's new_status is the issue's stored status.
LogOf(i) == SelectSeq(status_log, LAMBDA r : r.submission_id = i)
C25_LogChain ==
    \A i \in DOMAIN submissions :
        LET rows == LogOf(i)
        IN rows # << >>
             => /\ rows[1].old_status = "Pending"
                /\ \A k \in 2..Len(rows) : rows[k].old_status = rows[k - 1].new_status
                /\ rows[Len(rows)].new_status = submissions[i].status

\* C26: no booking is accepted for a non-Room asset over an interval that
\* overlaps a stored booking of a Room-type asset at the same location.
C26_InsideFollowsRoom ==
    [][Len(bookings') > Len(bookings)
         => LET b == bookings'[Len(bookings')]
            IN assets[b.asset_id].asset_type # "Room"
                 => \A k \in DOMAIN bookings :
                       ( /\ assets[bookings[k].asset_id].asset_type = "Room"
                         /\ assets[bookings[k].asset_id].location_id
                              = assets[b.asset_id].location_id )
                       => ~Intersect(b.start_time, b.end_time,
                                     bookings[k].start_time, bookings[k].end_time)]_vars

\* C27: a booking request is stored only if the selected asset's projected
\* status, as read at that page load, is 'available': for an asset that is
\* 'booked' at the load, by a booking of its own that holds now or by the
\* booking of the Room it stands in, no request stores anything, whatever
\* its interval; and every booking that is stored is of an asset that was in
\* neither case at its page load.
C27_StatusGate ==
    /\ [](LET shown == sync_asset_statuses_from_bookings(assets, bookings, now)
          IN \A a \in InsideAssets :
                (HasActiveBooking(bookings, a, now)
                   \/ InBookedRoomAtRoomLocation(assets, bookings, a, now))
                => /\ shown[a].status = "booked"
                   /\ \A u \in UserNames, iv \in Intervals :
                         BookingsAfter(shown, bookings, a, u, iv[1], iv[2], now) = bookings)
    /\ [][Len(bookings') > Len(bookings)
            => LET b == bookings'[Len(bookings')]
               IN /\ ~HasActiveBooking(bookings, b.asset_id, now)
                  /\ ~InBookedRoomAtRoomLocation(assets, bookings, b.asset_id, now)]_vars
\* the room's booking is running, the whiteboard in it is shown 'booked' with
\* no booking of its own, a later interval is free for both, and the table
\* has space for one more row
C27_Witness ==
    /\ HasActiveBooking(bookings, "ROOM_A", now)
    /\ assets["WHITEBOARD_1"].status = "booked"
    /\ RowsOf("WHITEBOARD_1") = {}
    /\ Len(bookings) < MaxBookings
    /\ \E iv \in Intervals :
          /\ iv[1] > now
          /\ is_asset_available(bookings, "ROOM_A", iv[1], iv[2])
          /\ is_asset_available(bookings, "WHITEBOARD_1", iv[1], iv[2])

\* C28: the initialisation every page load runs is idempotent on existing
\* data: run on the stored tables it adds no asset, leaves every asset's
\* location_id as stored, also that of a moved asset, and leaves submissions,
\* status_log, bookings and report_log as they are; run twice it gives what it
\* gives run once.
C28_InitIdempotent ==
    LET once == main_init(Database)
    IN /\ DOMAIN once.assets = DOMAIN assets
       /\ \A a \in DOMAIN assets : once.assets[a].location_id = assets[a].location_id
       /\ once = Database
       /\ main_init(once) = once
\* every table holds a row, an asset stands where it was moved to and an
\* asset is booked
C28_Witness ==
    /\ \E a \in AssetIds : assets[a].location_id # seed_assets[a].location_id
    /\ \E a \in AssetIds : assets[a].status = "booked"
    /\ bookings # << >>
    /\ submissions # << >>
    /\ status_log # << >>
    /\ report_log # << >>

\* C29: an admin save with new status Resolved and the resolution
\* confirmation unchecked is rejected: the issue's status, assignee and
\* resolved_at stay as stored, no status_log row is written and no
\* notification is attempted.
C29_UnconfirmedRejected ==
    \A s \in Sessions :
        adm[s].pc = "read"
          => \A assigned_to_value \in AssigneeInputs, smtp_ok \in BOOLEAN :
                LET out == page_overwrite_status_submitted(submissions, status_log, adm[s],
                               "Resolved", assigned_to_value, FALSE, smtp_ok, now)
                IN /\ out.subs = submissions
                   /\ out.log = status_log
                   /\ out.mail.kind = "none"
\* such a save has just been refused for an issue that is not resolved and
\* has no log row
C29_Witness ==
    /\ last.op = "unconfirmed"
    /\ submissions[last.id].status # "Resolved"
    /\ submissions[last.id].resolved_at = None
    /\ status_log = << >>

\* C30: send_weekly_report_if_due writes a 'weekly' report_log row if and only
\* if it sent the email successfully in that call.  It attempts the send
\* exactly when automatic reports are on, weekday and hour are the configured
\* ones and no 'weekly' row of today is logged, so that after a failed send a
\* later call in the same due hour attempts again; with the reports off, on
\* another weekday or hour, or when the send fails, report_log is unchanged.
WeeklyLoggedOn(d) ==
    \E k \in DOMAIN report_log :
        report_log[k].report_type = "weekly" /\ date(report_log[k].sent_at) = d
C30_LoggedIffSent ==
    /\ [](~weekly_report_due_for(FALSE, report_log, now))
    /\ [][last'.op = "report"
            => LET attempted == last'.mail.kind = "weekly"
                   sent == attempted /\ last'.mail.ok
               IN /\ attempted <=> ( /\ AUTO_WEEKLY_REPORT
                                     /\ weekday(now) = REPORT_WEEKDAY
                                     /\ hour(now) = REPORT_HOUR
                                     /\ ~WeeklyLoggedOn(date(now)) )
                  /\ report_log' = IF sent
                                   THEN Append(report_log, [report_type |-> "weekly",
                                                            sent_at |-> now])
                                   ELSE report_log
                  /\ (outbox' # outbox) <=> sent]_vars
\* a send has just failed in the due hour of the second Monday: the log still
\* holds the first Monday's row only
C30_Witness ==
    /\ last.op = "report"
    /\ last.mail.kind = "weekly"
    /\ ~last.mail.ok
    /\ Len(report_log) = 1
    /\ date(report_log[1].sent_at) < date(now)

====
